---- MODULE Spec2Model ----
(***************************************************************************)
(* A model of stem/version.py (Version parsing, rendering and comparison,  *)
(* the Requirement registry and the VERSION_CACHE of                       *)
(* get_system_tor_version) and of the endpoint fallback of                 *)
(* stem.descriptor.remote.Query.run.                                       *)
(*                                                                         *)
(* Python strings are sequences of one-character strings; None is the      *)
(* empty tuple and a present optional value v is <<v>>.                    *)
(***************************************************************************)
EXTENDS Integers, Sequences, FiniteSets, TLC

VARIABLES
  pc,             \* position of the sequential caller in the Version scenarios
  version_str,    \* Version.__init__: the argument
  self,           \* the Version under construction / constructed (None before)
  raised,         \* the exception that left the last operation ("none" if none)
  out,            \* Version.__str__: the returned string
  other_str,      \* Version.__cmp__: the string the right operand is built from
  other,          \* Version.__cmp__: the right operand
  cmp_result,     \* Version.__cmp__: the returned integer (None before)
  feature,        \* the Requirement member a version is held against
  supported,      \* the answer of the feature gate (None before)
  VERSION_CACHE,  \* module global: tor_cmd -> None | <<Version>>
  tor_cmd,        \* get_system_tor_version: argument of the last call (per thread: a function)
  version_output, \* what stem.util.system.call produced in the last call
  returned,       \* what the last call returned or raised
  invoked,        \* whether the last call ran stem.util.system.call
  discoveries,    \* tor_cmd -> number of stem.util.system.call invocations
  stores,         \* tor_cmd -> number of writes of VERSION_CACHE[tor_cmd]
  tpc,            \* thread -> position inside get_system_tor_version
  q_endpoints,    \* Query: the ordered candidate endpoints
  q_state,        \* Query: not_started / in_progress / succeeded / failed
  q_next,         \* Query: index of the next endpoint to try
  q_tried,        \* Query: the endpoints tried so far, in trial order
  q_causes,       \* Query: recorded per-endpoint failures, in trial order
  q_result        \* Query: what run() gave back (None before)

vars == <<pc, version_str, self, raised, out, other_str, other, cmp_result,
          feature, supported, VERSION_CACHE, tor_cmd, version_output, returned,
          invoked, discoveries, stores, tpc, q_endpoints, q_state, q_next,
          q_tried, q_causes, q_result>>

versionVars == <<pc, version_str, self, raised, out, other_str, other,
                 cmp_result, feature, supported>>
cacheVars == <<VERSION_CACHE, tor_cmd, version_output, returned, invoked,
               discoveries, stores, tpc>>
queryVars == <<q_endpoints, q_state, q_next, q_tried, q_causes, q_result>>

None == <<>>
Some(v) == <<v>>

(***************************************************************************)
(* Characters and the conversions int(...) and "%i" % ...                  *)
(***************************************************************************)
Digits == <<"0", "1", "2", "3", "4", "5", "6", "7", "8", "9">>

IsDigit(c) == \E i \in 1..10 : Digits[i] = c

DigitVal(c) == (CHOOSE i \in 1..10 : Digits[i] = c) - 1

\* \S of the re module: anything but whitespace
NonSpace(c) == c \notin {" ", "\n", "\t"}

\* the unescaped '.' of the pattern: any character but a line break
AnyButNewline(c) == c # "\n"

RECURSIVE StrToInt(_)
\* int(s) for a string of decimal digits
StrToInt(s) ==
  IF s = <<>> THEN 0
  ELSE StrToInt(SubSeq(s, 1, Len(s) - 1)) * 10 + DigitVal(s[Len(s)])

RECURSIVE IntToStr(_)
\* "%i" % n for n >= 0
IntToStr(n) ==
  IF n < 10 THEN <<Digits[n + 1]>>
  ELSE IntToStr(n \div 10) \o <<Digits[(n % 10) + 1]>>

AllDigits(s, i, j) == i <= j /\ \A k \in i..j : IsDigit(s[k])

\* re.match(r'^([0-9]+).([0-9]+).([0-9]+)(.[0-9]+)?(-\S*)?$', version_str)
\*
\* A match is the tuple of the end positions of the five groups; an optional
\* group that did not take part ends where the group before it ends. Every
\* quantifier of the pattern is greedy, so the backtracking matcher returns
\* the candidate that is greatest group by group.
Separator(s, i) == i <= Len(s) /\ AnyButNewline(s[i])

\* '$' matches at the end of the string and before a final line break
AtEnd(s, e) == e = Len(s) \/ (e = Len(s) - 1 /\ s[Len(s)] = "\n")

MajorEnds(s) ==
  {e \in 1..Len(s) : AllDigits(s, 1, e) /\ Separator(s, e + 1)}

MinorEnds(s, e1) ==
  {e \in (e1 + 2)..Len(s) : AllDigits(s, e1 + 2, e) /\ Separator(s, e + 1)}

MicroEnds(s, e2) ==
  {e \in (e2 + 2)..Len(s) : AllDigits(s, e2 + 2, e)}

PatchEnds(s, e3) ==
  {e3} \cup {e \in (e3 + 2)..Len(s) :
               Separator(s, e3 + 1) /\ AllDigits(s, e3 + 2, e)}

StatusEnds(s, e4) ==
  {e4} \cup {e \in (e4 + 1)..Len(s) :
               s[e4 + 1] = "-" /\ \A k \in (e4 + 2)..e : NonSpace(s[k])}

Candidates(s) ==
  UNION { UNION { UNION { UNION {
    { <<e1, e2, e3, e4, e5>> : e5 \in {e \in StatusEnds(s, e4) : AtEnd(s, e)} }
      : e4 \in PatchEnds(s, e3) }
      : e3 \in MicroEnds(s, e2) }
      : e2 \in MinorEnds(s, e1) }
      : e1 \in MajorEnds(s) }

\* m comes before o in the matcher's order of trial (longer groups first)
Preferred(m, o) ==
  \/ m = o
  \/ \E i \in 1..5 : m[i] > o[i] /\ \A j \in 1..(i - 1) : m[j] = o[j]

\* m.groups(): None when the pattern does not match
ReMatch(s) ==
  IF Candidates(s) = {} THEN None
  ELSE LET m == CHOOSE c \in Candidates(s) :
                  \A o \in Candidates(s) : Preferred(c, o)
       IN  Some([major  |-> SubSeq(s, 1, m[1]),
                 minor  |-> SubSeq(s, m[1] + 2, m[2]),
                 micro  |-> SubSeq(s, m[2] + 2, m[3]),
                 patch  |-> IF m[4] = m[3] THEN None
                            ELSE Some(SubSeq(s, m[3] + 1, m[4])),
                 status |-> IF m[5] = m[4] THEN None
                            ELSE Some(SubSeq(s, m[4] + 1, m[5]))])

\* s[1:]
Tail1(s) == SubSeq(s, 2, Len(s))

(***************************************************************************)
(* class Version                                                           *)
(***************************************************************************)
\* truth value of an optional string: None and "" are false
TruthyStr(opt) == opt # None /\ opt[1] # <<>>

\* truth value of an optional integer: None and 0 are false
TruthyInt(opt) == opt # None /\ opt[1] # 0

\* the attributes __init__ sets from the groups of a match
VersionFields(g) ==
  [major  |-> StrToInt(g.major),
   minor  |-> StrToInt(g.minor),
   micro  |-> StrToInt(g.micro),
   patch  |-> IF TruthyStr(g.patch) THEN Some(StrToInt(Tail1(g.patch[1])))
              ELSE g.patch,
   status |-> IF TruthyStr(g.status) THEN Some(Tail1(g.status[1]))
              ELSE g.status]

\* Version(version_str): <<Version>>, or None when ValueError is raised
NewVersion(s) ==
  IF ReMatch(s) # None THEN Some(VersionFields(ReMatch(s)[1])) ELSE None

\* __str__ with minor and micro exchanged in the format arguments
VersionStrSwapped(v) ==
  IntToStr(v.major) \o <<".">> \o IntToStr(v.micro) \o <<".">>
    \o IntToStr(v.minor)

\* Version.__str__
VersionStr(v) ==
  LET suffix1 == IF TruthyInt(v.patch) THEN <<".">> \o IntToStr(v.patch[1])
                 ELSE <<>>
      suffix2 == IF TruthyStr(v.status) THEN suffix1 \o <<"-">> \o v.status[1]
                 ELSE suffix1
  IN  IntToStr(v.major) \o <<".">> \o IntToStr(v.minor) \o <<".">>
        \o IntToStr(v.micro) \o suffix2

\* max(0, x) of Python 2, where None orders below every number
Max0(x) == IF x = None THEN 0 ELSE IF x[1] > 0 THEN x[1] ELSE 0

\* the attributes __cmp__ walks over, in order
CmpAttrs(v) == <<Some(v.major), Some(v.minor), Some(v.micro), v.patch>>

IsVersion(v) == DOMAIN v = {"major", "minor", "micro", "patch", "status"}

RECURSIVE CmpFrom(_, _, _)
\* the loop of __cmp__ from attribute i on
CmpFrom(a, b, i) ==
  IF i > 4 THEN 0
  ELSE LET my_version    == Max0(CmpAttrs(a)[i])
           other_version == Max0(CmpAttrs(b)[i])
       IN  IF my_version > other_version THEN 1
           ELSE IF my_version < other_version THEN -1
           ELSE CmpFrom(a, b, i + 1)

\* __cmp__ letting the status tags decide between otherwise equal versions
VersionCmpWithStatus(a, b) ==
  IF ~IsVersion(b) THEN 1
  ELSE IF CmpFrom(a, b, 1) # 0 THEN CmpFrom(a, b, 1)
  ELSE IF a.status = b.status THEN 0
  ELSE IF a.status = None THEN -1 ELSE 1

\* Version.__cmp__
VersionCmp(a, b) == IF ~IsVersion(b) THEN 1 ELSE CmpFrom(a, b, 1)

(***************************************************************************)
(* Requirement = stem.util.enum.Enum(...)                                  *)
(***************************************************************************)
Features == {"GETINFO_CONFIG_TEXT", "CONTROL_SOCKET"}

\* the registry with the two minimum versions exchanged
RequirementSwapped ==
  [CONTROL_SOCKET |->
     NewVersion(<<"0", ".", "2", ".", "2", ".", "7",
                  "-", "a", "l", "p", "h", "a">>)[1],
   GETINFO_CONFIG_TEXT |->
     NewVersion(<<"0", ".", "2", ".", "0", ".", "3", "0">>)[1]]

Requirement ==
  [GETINFO_CONFIG_TEXT |->
     NewVersion(<<"0", ".", "2", ".", "2", ".", "7",
                  "-", "a", "l", "p", "h", "a">>)[1],
   CONTROL_SOCKET |->
     NewVersion(<<"0", ".", "2", ".", "0", ".", "3", "0">>)[1]]

\* isSupported(feature, currentVersion)
IsSupported(f, v) == VersionCmp(v, Requirement[f]) # -1

(***************************************************************************)
(* Inputs of the Version scenarios                                         *)
(***************************************************************************)
MaxDigit == 1
MaxCmpDigit == 1

Concat2(X, Y) == {x \o y : x \in X, y \in Y}

DigitStrs(n) == {<<Digits[i + 1]>> : i \in 0..n}

\* one numeric field as a caller may write it: plain, two digits, with a
\* leading zero, not a number, missing
FieldStrs == DigitStrs(MaxDigit) \cup {<<"1", "0">>, <<"0", "1">>, <<"x">>, <<>>}
SepStrs == {<<".">>, <<"x">>}
PatchStrs == {<<>>} \cup Concat2(SepStrs, {<<"0">>, <<"7">>, <<"x">>})
StatusStrs ==
  {<<>>, <<"-">>, <<"-", "r", "c">>, <<"-", "7">>, <<"-", "a", " ", "b">>}
TailStrs == {<<>>, <<"\n">>, <<" ">>}

ParseInputs ==
  Concat2(Concat2(Concat2(Concat2(Concat2(
    Concat2(FieldStrs, SepStrs),
    Concat2(FieldStrs, SepStrs) \cup {<<>>}),
    FieldStrs), PatchStrs), StatusStrs), TailStrs)

\* the operands of the comparison scenario: every field over 0..MaxCmpDigit,
\* the patch absent or present, the status absent or one of two tags
CmpStatusStrs == {<<>>, <<"-", "r", "c">>, <<"-", "a", "l", "p", "h", "a">>}

CmpInputs ==
  Concat2(Concat2(Concat2(Concat2(
    Concat2(DigitStrs(MaxCmpDigit), {<<".">>}),
    Concat2(DigitStrs(MaxCmpDigit), {<<".">>})),
    DigitStrs(MaxCmpDigit)),
    {<<>>} \cup Concat2({<<".">>}, DigitStrs(MaxCmpDigit))),
    CmpStatusStrs)

\* the current versions held against the Requirement registry
ReqInputs ==
  Concat2(Concat2(Concat2(Concat2(
    {<<"0", ".">>, <<"1", ".">>},
    {<<"1", ".">>, <<"2", ".">>, <<"3", ".">>}),
    {<<"0">>, <<"2">>, <<"9">>}),
    {<<>>, <<".", "0">>, <<".", "6">>, <<".", "7">>, <<".", "8">>,
     <<".", "9">>, <<".", "2", "9">>, <<".", "3", "0">>, <<".", "3", "1">>}),
    CmpStatusStrs)

(***************************************************************************)
(* The Version scenarios: a caller constructs, renders, compares           *)
(***************************************************************************)
VersionIdle ==
  /\ pc = "start" /\ self = None /\ raised = "none" /\ out = None
  /\ other = None /\ cmp_result = None /\ supported = None

CacheIdle ==
  /\ VERSION_CACHE = <<>> /\ tor_cmd = None /\ version_output = None
  /\ returned = None /\ invoked = FALSE /\ discoveries = <<>>
  /\ stores = <<>> /\ tpc = <<>>

QueryIdle ==
  /\ q_endpoints = <<>> /\ q_state = "none" /\ q_next = 0
  /\ q_tried = <<>> /\ q_causes = <<>> /\ q_result = None

\* self = Version(version_str)
VersionInit ==
  /\ pc = "start"
  /\ IF NewVersion(version_str) # None
       THEN /\ self' = NewVersion(version_str)
            /\ pc' = "constructed"
            /\ UNCHANGED raised
       ELSE /\ raised' = "ValueError"
            /\ pc' = "raised"
            /\ UNCHANGED self
  /\ UNCHANGED <<version_str, out, other_str, other, cmp_result, feature,
                 supported, cacheVars, queryVars>>

\* out = str(self)
Str ==
  /\ pc = "constructed"
  /\ out' = Some(VersionStr(self[1]))
  /\ pc' = "rendered"
  /\ UNCHANGED <<version_str, self, raised, other_str, other, cmp_result,
                 feature, supported, cacheVars, queryVars>>

\* other = Version(other_str)
OtherInit ==
  /\ pc = "constructed"
  /\ IF NewVersion(other_str) # None
       THEN /\ other' = NewVersion(other_str)
            /\ pc' = "both"
            /\ UNCHANGED raised
       ELSE /\ raised' = "ValueError"
            /\ pc' = "raised"
            /\ UNCHANGED other
  /\ UNCHANGED <<version_str, self, out, other_str, cmp_result, feature,
                 supported, cacheVars, queryVars>>

\* cmp_result = cmp(self, other)
Cmp ==
  /\ pc = "both"
  /\ cmp_result' = Some(VersionCmp(self[1], other[1]))
  /\ pc' = "compared"
  /\ UNCHANGED <<version_str, self, raised, out, other_str, other, feature,
                 supported, cacheVars, queryVars>>

\* supported = isSupported(feature, self)
Gate ==
  /\ pc = "constructed"
  /\ supported' = Some(IsSupported(feature, self[1]))
  /\ pc' = "gated"
  /\ UNCHANGED <<version_str, self, raised, out, other_str, other, cmp_result,
                 feature, cacheVars, queryVars>>

ParseInit ==
  /\ VersionIdle /\ CacheIdle /\ QueryIdle
  /\ version_str \in ParseInputs
  /\ other_str = <<>> /\ feature = "none"

ParseNext == VersionInit \/ Str

ParseSpec == ParseInit /\ [][ParseNext]_vars

CmpInit ==
  /\ VersionIdle /\ CacheIdle /\ QueryIdle
  /\ version_str \in CmpInputs
  /\ other_str \in CmpInputs
  /\ feature = "none"

CmpNext == VersionInit \/ OtherInit \/ Cmp

CmpSpec == CmpInit /\ [][CmpNext]_vars

ReqInit ==
  /\ VersionIdle /\ CacheIdle /\ QueryIdle
  /\ version_str \in ReqInputs
  /\ other_str = <<>>
  /\ feature \in Features

ReqNext == VersionInit \/ Gate

ReqSpec == ReqInit /\ [][ReqNext]_vars

(***************************************************************************)
(* get_system_tor_version and VERSION_CACHE                                *)
(***************************************************************************)
MaxDiscoveries == 2
MaxThreads == 2

TorCmds == {"tor", "/usr/sbin/tor"}

Threads == 1..MaxThreads

TorVersionPrefix ==
  <<"T", "o", "r", " ", "v", "e", "r", "s", "i", "o", "n", " ">>

StartsWith(s, p) == Len(s) >= Len(p) /\ SubSeq(s, 1, Len(p)) = p

EndsWith(s, p) ==
  Len(s) >= Len(p) /\ SubSeq(s, Len(s) - Len(p) + 1, Len(s)) = p

\* last_line[12:-1]
Slice12(s) == IF Len(s) - 1 < 13 THEN <<>> ELSE SubSeq(s, 13, Len(s) - 1)

\* lines the tor command may print
Line_0_2_1_30 == TorVersionPrefix \o <<"0", ".", "2", ".", "1", ".", "3", "0", ".">>
Line_0_2_2_7_alpha ==
  TorVersionPrefix
    \o <<"0", ".", "2", ".", "2", ".", "7", "-", "a", "l", "p", "h", "a", ".">>
Line_NoPeriod == TorVersionPrefix \o <<"0", ".", "2", ".", "1", ".", "3", "0">>
Line_Notice == <<"T", "o", "r", " ", "v", "0", ".", "2", ".", "1", ".", "3", "0", ".">>
Line_TwoFields == TorVersionPrefix \o <<"1", ".", "2", ".">>
Line_NoVersion == TorVersionPrefix \o <<".">>
Line_EmptyStatus ==
  TorVersionPrefix \o <<"0", ".", "2", ".", "1", ".", "3", "0", "-", ".">>

\* what stem.util.system.call(version_cmd) may do: raise OSError, or return
\* the lines of the command's output
CallOutcomes ==
  {[exc |-> "OSError", lines |-> <<>>]} \cup
  {[exc |-> "none", lines |-> l] : l \in
     {<<>>, <<Line_0_2_1_30>>, <<Line_0_2_2_7_alpha>>, <<Line_NoPeriod>>,
      <<Line_Notice>>, <<Line_TwoFields>>, <<Line_NoVersion>>,
      <<Line_EmptyStatus>>, <<Line_Notice, Line_0_2_1_30>>,
      <<Line_0_2_1_30, Line_Notice>>}}

Raise(e) == [exc |-> e, value |-> None]
Return(v) == [exc |-> "none", value |-> Some(v)]

\* 'tor_cmd in VERSION_CACHE' that never finds the key
InCacheNever(cache, cmd) == FALSE

\* tor_cmd in VERSION_CACHE
InCache(cache, cmd) == cache[cmd] # None

\* the body of the 'if not tor_cmd in VERSION_CACHE' block without the
\* try/except around Version(version_str)
VersionFromOutputUncaught(o) ==
  IF o.exc = "OSError" THEN Raise("IOError")
  ELSE IF o.lines # <<>>
    THEN LET last_line == o.lines[Len(o.lines)]
         IN  IF StartsWith(last_line, TorVersionPrefix) /\ EndsWith(last_line, <<".">>)
               THEN IF NewVersion(Slice12(last_line)) # None
                      THEN Return(NewVersion(Slice12(last_line))[1])
                      ELSE Raise("ValueError")
               ELSE Raise("IOError")
    ELSE Raise("IOError")

\* the body of the 'if not tor_cmd in VERSION_CACHE' block, from the outcome
\* of stem.util.system.call on: the Version to store, or the IOError raised
VersionFromOutput(o) ==
  IF o.exc = "OSError" THEN Raise("IOError")
  ELSE IF o.lines # <<>>
    THEN LET last_line == o.lines[Len(o.lines)]
         IN  IF StartsWith(last_line, TorVersionPrefix) /\ EndsWith(last_line, <<".">>)
               THEN IF NewVersion(Slice12(last_line)) # None
                      THEN Return(NewVersion(Slice12(last_line))[1])
                      ELSE Raise("IOError")
               ELSE Raise("IOError")
    ELSE Raise("IOError")

\* get_system_tor_version(cmd), called by one caller at a time
GetSystemTorVersion(cmd, o) ==
  /\ tpc = <<>>
  /\ tor_cmd' = Some(cmd)
  /\ IF InCache(VERSION_CACHE, cmd)
       THEN /\ invoked' = FALSE
            /\ version_output' = None
            /\ returned' = Return(VERSION_CACHE[cmd][1])
            /\ UNCHANGED <<VERSION_CACHE, discoveries, stores>>
       ELSE /\ discoveries[cmd] < MaxDiscoveries
            /\ invoked' = TRUE
            /\ discoveries' = [discoveries EXCEPT ![cmd] = @ + 1]
            /\ version_output' = Some(o)
            /\ IF VersionFromOutput(o).exc = "none"
                 THEN /\ VERSION_CACHE' =
                           [VERSION_CACHE EXCEPT ![cmd] = VersionFromOutput(o).value]
                      /\ stores' = [stores EXCEPT ![cmd] = @ + 1]
                      /\ returned' = Return(VERSION_CACHE'[cmd][1])
                 ELSE /\ returned' = VersionFromOutput(o)
                      /\ UNCHANGED <<VERSION_CACHE, stores>>
  /\ UNCHANGED <<tpc, versionVars, queryVars>>

CacheInit ==
  /\ VersionIdle /\ QueryIdle
  /\ version_str = <<>> /\ other_str = <<>> /\ feature = "none"
  /\ VERSION_CACHE = [k \in TorCmds |-> None]
  /\ discoveries = [k \in TorCmds |-> 0]
  /\ stores = [k \in TorCmds |-> 0]
  /\ tor_cmd = None /\ version_output = None /\ returned = None
  /\ invoked = FALSE /\ tpc = <<>>

CacheNext == \E cmd \in TorCmds, o \in CallOutcomes : GetSystemTorVersion(cmd, o)

CacheSpec == CacheInit /\ [][CacheNext]_vars

(***************************************************************************)
(* get_system_tor_version called from several threads: the interpreter may *)
(* switch threads between the membership test, the external call, the      *)
(* store and the final read                                                *)
(***************************************************************************)
\* if not tor_cmd in VERSION_CACHE:
Line47(t) ==
  /\ tpc[t] = "line47"
  /\ tpc' = [tpc EXCEPT ![t] =
               IF InCache(VERSION_CACHE, tor_cmd[t]) THEN "line72" ELSE "line50"]
  /\ UNCHANGED <<VERSION_CACHE, tor_cmd, version_output, returned, invoked,
                 discoveries, stores, versionVars, queryVars>>

\* version_output = stem.util.system.call(version_cmd)
Line50(t, o) ==
  /\ tpc[t] = "line50"
  /\ discoveries' = [discoveries EXCEPT ![tor_cmd[t]] = @ + 1]
  /\ IF o.exc = "OSError"
       THEN /\ returned' = [returned EXCEPT ![t] = Raise("IOError")]
            /\ tpc' = [tpc EXCEPT ![t] = "done"]
            /\ UNCHANGED version_output
       ELSE /\ version_output' = [version_output EXCEPT ![t] = Some(o)]
            /\ tpc' = [tpc EXCEPT ![t] = "line54"]
            /\ UNCHANGED returned
  /\ UNCHANGED <<VERSION_CACHE, tor_cmd, invoked, stores, versionVars, queryVars>>

\* if version_output: ... VERSION_CACHE[tor_cmd] = Version(version_str) ...
Line54(t) ==
  /\ tpc[t] = "line54"
  /\ IF VersionFromOutput(version_output[t][1]).exc = "none"
       THEN /\ VERSION_CACHE' =
                 [VERSION_CACHE EXCEPT
                    ![tor_cmd[t]] = VersionFromOutput(version_output[t][1]).value]
            /\ stores' = [stores EXCEPT ![tor_cmd[t]] = @ + 1]
            /\ tpc' = [tpc EXCEPT ![t] = "line72"]
            /\ UNCHANGED returned
       ELSE /\ returned' =
                 [returned EXCEPT ![t] = VersionFromOutput(version_output[t][1])]
            /\ tpc' = [tpc EXCEPT ![t] = "done"]
            /\ UNCHANGED <<VERSION_CACHE, stores>>
  /\ UNCHANGED <<tor_cmd, version_output, invoked, discoveries, versionVars,
                 queryVars>>

\* return VERSION_CACHE[tor_cmd]
Line72(t) ==
  /\ tpc[t] = "line72"
  /\ returned' = [returned EXCEPT ![t] = Return(VERSION_CACHE[tor_cmd[t]][1])]
  /\ tpc' = [tpc EXCEPT ![t] = "done"]
  /\ UNCHANGED <<VERSION_CACHE, tor_cmd, version_output, invoked, discoveries,
                 stores, versionVars, queryVars>>

ThreadInit ==
  /\ VersionIdle /\ QueryIdle
  /\ version_str = <<>> /\ other_str = <<>> /\ feature = "none"
  /\ VERSION_CACHE = [k \in TorCmds |-> None]
  /\ discoveries = [k \in TorCmds |-> 0]
  /\ stores = [k \in TorCmds |-> 0]
  /\ tor_cmd \in [Threads -> TorCmds]
  /\ version_output = [t \in Threads |-> None]
  /\ returned = [t \in Threads |-> None]
  /\ invoked = FALSE
  /\ tpc = [t \in Threads |-> "line47"]

ThreadNext ==
  \E t \in Threads :
    \/ Line47(t)
    \/ \E o \in CallOutcomes : Line50(t, o)
    \/ Line54(t)
    \/ Line72(t)

ThreadSpec == ThreadInit /\ [][ThreadNext]_vars

(***************************************************************************)
(* stem.descriptor.remote.Query: run() tries the candidate endpoints in    *)
(* order until one yields a structurally valid response                    *)
(***************************************************************************)
MaxEndpoints == 3

Endpoints == {"E1", "E2", "E3", "E4"}

\* why an attempt at an endpoint fails
FailureKinds == {"timeout", "transport", "malformed"}

\* the non-empty ordered endpoint lists a Query is built with
EndpointLists ==
  UNION {{l \in [1..n -> Endpoints] : \A i, j \in 1..n : l[i] = l[j] => i = j}
           : n \in 1..MaxEndpoints}

\* the records the parser makes of the response of endpoint e
RecordsOf(e) == <<[source |-> e]>>

\* recording a failed attempt that drops the causes recorded before it
RecordFailureLast(causes, e, kind) == <<[endpoint |-> e, kind |-> kind]>>

\* recording a failed attempt
RecordFailure(causes, e, kind) == Append(causes, [endpoint |-> e, kind |-> kind])

\* an attempt that always takes the first endpoint of the list
EndpointAtFirst(l, i) == l[1]

\* the endpoint of the attempt number i
EndpointAt(l, i) == l[i]

\* run() is called
QueryRun ==
  /\ q_state = "not_started"
  /\ q_state' = "in_progress"
  /\ q_next' = 1
  /\ UNCHANGED <<q_endpoints, q_tried, q_causes, q_result, versionVars, cacheVars>>

\* the attempt at the next endpoint times out, fails in transport, or its
\* payload is rejected by the parser
QueryAttemptFails(kind) ==
  /\ q_state = "in_progress"
  /\ q_next <= Len(q_endpoints)
  /\ q_tried' = Append(q_tried, EndpointAt(q_endpoints, q_next))
  /\ q_causes' = RecordFailure(q_causes, EndpointAt(q_endpoints, q_next), kind)
  /\ q_next' = q_next + 1
  /\ IF q_next = Len(q_endpoints)
       THEN /\ q_state' = "failed"
            /\ q_result' = Some([exc |-> "AllEndpointsExhausted",
                                 causes |-> q_causes', records |-> <<>>])
       ELSE UNCHANGED <<q_state, q_result>>
  /\ UNCHANGED <<q_endpoints, versionVars, cacheVars>>

\* the attempt at the next endpoint yields a structurally valid response
QueryAttemptSucceeds ==
  /\ q_state = "in_progress"
  /\ q_next <= Len(q_endpoints)
  /\ q_tried' = Append(q_tried, EndpointAt(q_endpoints, q_next))
  /\ q_next' = q_next + 1
  /\ q_state' = "succeeded"
  /\ q_result' = Some([exc |-> "none", causes |-> <<>>,
                       records |-> RecordsOf(EndpointAt(q_endpoints, q_next))])
  /\ UNCHANGED <<q_endpoints, q_causes, versionVars, cacheVars>>

QueryInit ==
  /\ VersionIdle /\ CacheIdle
  /\ version_str = <<>> /\ other_str = <<>> /\ feature = "none"
  /\ q_endpoints \in EndpointLists
  /\ q_state = "not_started"
  /\ q_next = 0
  /\ q_tried = <<>> /\ q_causes = <<>> /\ q_result = None

QueryNext ==
  \/ QueryRun
  \/ \E kind \in FailureKinds : QueryAttemptFails(kind)
  \/ QueryAttemptSucceeds

QuerySpec == QueryInit /\ [][QueryNext]_vars

\* run() is a loop of one thread, and every attempt ends within its timeout
FairQuerySpec == QuerySpec /\ WF_vars(QueryNext)

(***************************************************************************)
(* The version grammar as the specification words it,                      *)
(* ^\d+\.\d+\.\d+(\.\d+)?(-\S+)?$, and the order it describes              *)
(***************************************************************************)
At(s, i) == IF i \in 1..Len(s) THEN s[i] ELSE ""

\* ^\d+\.\d+\.\d+ ending at e3
ThreeFieldsTo(s, e3) ==
  \E e1 \in 1..Len(s) :
    /\ AllDigits(s, 1, e1) /\ At(s, e1 + 1) = "."
    /\ \E e2 \in (e1 + 2)..Len(s) :
         /\ AllDigits(s, e1 + 2, e2) /\ At(s, e2 + 1) = "."
         /\ AllDigits(s, e2 + 2, e3)

\* a string a.b.c with no optional part
ThreeFields(s) == ThreeFieldsTo(s, Len(s))

WellFormed(s) ==
  \E e3 \in 1..Len(s) :
    /\ ThreeFieldsTo(s, e3)
    /\ \E e4 \in e3..Len(s) :
         /\ e4 = e3 \/ (At(s, e3 + 1) = "." /\ AllDigits(s, e3 + 2, e4))
         /\ \/ e4 = Len(s)
            \/ /\ At(s, e4 + 1) = "-"
               /\ e4 + 2 <= Len(s)
               /\ \A k \in (e4 + 2)..Len(s) : NonSpace(s[k])

\* no numeric field of a.b.c is written with a leading zero
NoLeadingZero(s) ==
  \A i \in 1..Len(s) :
    (s[i] = "0" /\ (i = 1 \/ s[i - 1] = ".")) => (i = Len(s) \/ s[i + 1] = ".")

\* (major, minor, micro, patch-or-0)
Key(v) == <<v.major, v.minor, v.micro, IF v.patch = None THEN 0 ELSE v.patch[1]>>

\* the order decided by the first differing component: -1, 0 or 1
LexSign(x, y) ==
  IF x = y THEN 0
  ELSE LET i == CHOOSE k \in 1..4 : x[k] # y[k] /\ \A j \in 1..(k - 1) : x[j] = y[j]
       IN  IF x[i] > y[i] THEN 1 ELSE -1

\* major.minor.micro, then .patch if a patch is there, then -status if a status is
RenderedByPresence(v) ==
  IntToStr(v.major) \o <<".">> \o IntToStr(v.minor) \o <<".">> \o IntToStr(v.micro)
    \o (IF v.patch # None THEN <<".">> \o IntToStr(v.patch[1]) ELSE <<>>)
    \o (IF v.status # None THEN <<"-">> \o v.status[1] ELSE <<>>)

CmpVersions == {NewVersion(s)[1] : s \in CmpInputs}

\* the minimum versions of the registry, as the specification states them
MinimumKey ==
  [GETINFO_CONFIG_TEXT |-> <<0, 2, 2, 7>>, CONTROL_SOCKET |-> <<0, 2, 0, 30>>]

\* the calls for command k that have raised IOError
FailedCalls(k) ==
  {t \in DOMAIN tpc :
     tor_cmd[t] = k /\ returned[t] # None /\ returned[t].exc = "IOError"}

\* the outcomes of the discovery call that make a lookup fail
FailureCause(o) ==
  \/ o.exc = "OSError"
  \/ o.lines = <<>>
  \/ LET l == o.lines[Len(o.lines)]
     IN  \/ ~StartsWith(l, TorVersionPrefix)
         \/ l[Len(l)] # "."
         \/ NewVersion(SubSeq(l, Len(TorVersionPrefix) + 1, Len(l) - 1)) = None

IsPrefix(p, l) == Len(p) <= Len(l) /\ SubSeq(l, 1, Len(p)) = p

StatusValues == {None, Some(<<"r", "c">>), Some(<<"a", "l", "p", "h", "a">>)}

(***************************************************************************)
(* C1: compare is a total order on parsed Versions decided by the first    *)
(* differing component of (major, minor, micro, patch-or-0): equal to      *)
(* itself, opposite when the operands are swapped, transitive, and blind   *)
(* to the status tag.                                                      *)
(***************************************************************************)
C1_TotalOrder ==
  pc = "compared" =>
    LET a == self[1]
        b == other[1]
        r == cmp_result[1]
    IN  /\ r = LexSign(Key(a), Key(b))
        /\ VersionCmp(a, a) = 0
        /\ VersionCmp(b, a) = -r
        /\ \A c \in CmpVersions :
             (r <= 0 /\ VersionCmp(b, c) <= 0) => VersionCmp(a, c) <= 0
        /\ \A st \in StatusValues :
             /\ VersionCmp([a EXCEPT !.status = st], b) = r
             /\ VersionCmp(a, [b EXCEPT !.status = st]) = r

\* two versions with different status tags and an absent patch against a patch
\* of 0 have been compared and found equal
C1_Witness ==
  /\ pc = "compared"
  /\ self[1].status # None /\ other[1].status # None
  /\ self[1].status # other[1].status
  /\ self[1].patch = None /\ other[1].patch = Some(0)
  /\ cmp_result = Some(0)

(***************************************************************************)
(* C2: constructing a Version succeeds exactly for the strings of the      *)
(* grammar ^\d+\.\d+\.\d+(\.\d+)?(-\S+)?$; every other string raises       *)
(* ValueError.                                                             *)
(***************************************************************************)
C2_AcceptsExactlyGrammar ==
  pc # "start" => ((pc # "raised") <=> WellFormed(version_str))

(***************************************************************************)
(* C3: rendering emits major.minor.micro, '.patch' exactly when a patch    *)
(* was present (a patch of 0 included) and '-status' exactly when a status *)
(* was present; a.b.c and a.b.c.0 compare equal and render differently.    *)
(***************************************************************************)
C3_RenderByPresence ==
  (pc = "rendered" /\ WellFormed(version_str)) =>
    /\ out = Some(RenderedByPresence(self[1]))
    /\ LET base == SubSeq(version_str, 1, Len(version_str) - 2)
       IN  (ThreeFields(base) /\ version_str = base \o <<".", "0">>) =>
             /\ VersionCmp(self[1], NewVersion(base)[1]) = 0
             /\ out # Some(VersionStr(NewVersion(base)[1]))

(***************************************************************************)
(* C5: every string a.b.c of three decimal fields with no optional part    *)
(* parses, and renders back to itself.                                     *)
(***************************************************************************)
C5_RoundTrip ==
  (pc # "start" /\ ThreeFields(version_str)) =>
    /\ pc # "raised"
    /\ pc = "rendered" => out = Some(version_str)

\* C5 as amended: every string a.b.c of three decimal fields written without
\* leading zeros, with no optional part, parses and renders back to itself.
C5_RoundTripCanonical ==
  (pc # "start" /\ ThreeFields(version_str) /\ NoLeadingZero(version_str)) =>
    /\ pc # "raised"
    /\ pc = "rendered" => out = Some(version_str)

\* a three-field string with a two-digit field has been parsed and rendered
C5_Witness ==
  /\ pc = "rendered"
  /\ ThreeFields(version_str) /\ NoLeadingZero(version_str)
  /\ Len(version_str) > 5
  /\ self[1].minor # self[1].micro
  /\ out = Some(version_str)

(***************************************************************************)
(* C4: a feature of the Requirement registry (GETINFO_CONFIG_TEXT at       *)
(* 0.2.2.7, CONTROL_SOCKET at 0.2.0.30) is supported exactly by the        *)
(* versions at or above its minimum, whatever the status tag of either.    *)
(***************************************************************************)
C4_SupportedAtAndAbove ==
  pc = "gated" =>
    /\ supported[1] = (LexSign(Key(self[1]), MinimumKey[feature]) # -1)
    /\ \A st \in StatusValues :
         /\ IsSupported(feature, [self[1] EXCEPT !.status = st]) = supported[1]
         /\ (VersionCmp(self[1], [Requirement[feature] EXCEPT !.status = st]) # -1)
              = supported[1]

\* the minimum itself, carrying a status tag, has been found to support
\* CONTROL_SOCKET
C4_Witness ==
  /\ pc = "gated"
  /\ feature = "CONTROL_SOCKET"
  /\ Key(self[1]) = <<0, 2, 0, 30>>
  /\ self[1].status # None
  /\ supported = Some(TRUE)

(***************************************************************************)
(* C6: once a call has stored a Version for a command, every later call    *)
(* for that command returns that same Version without invoking             *)
(* stem.util.system.call; the call is invoked only for commands that are   *)
(* not in the cache.                                                       *)
(***************************************************************************)
C6_CachedNeverRediscovered ==
  [][\A k \in TorCmds :
       /\ VERSION_CACHE[k] # None =>
            /\ VERSION_CACHE'[k] = VERSION_CACHE[k]
            /\ discoveries'[k] = discoveries[k]
            /\ tor_cmd' = Some(k) =>
                 (~invoked' /\ returned' = Return(VERSION_CACHE[k][1]))
       /\ (tor_cmd' = Some(k) /\ invoked') => VERSION_CACHE[k] = None
       /\ discoveries'[k] # discoveries[k] => (tor_cmd' = Some(k) /\ invoked')
    ]_vars

\* a call found its command cached and returned the cached Version, after one
\* failed and one successful discovery for it
C6_Witness ==
  /\ tpc = <<>> /\ tor_cmd # None
  /\ ~invoked
  /\ VERSION_CACHE[tor_cmd[1]] # None
  /\ returned = Return(VERSION_CACHE[tor_cmd[1]][1])
  /\ discoveries[tor_cmd[1]] = 2

(***************************************************************************)
(* C7: concurrent first lookups of the same uncached command are guarded:  *)
(* the membership test, the discovery call and the store act as one step,  *)
(* so no two callers are between the test and the store for one command,   *)
(* the entry is written once, and all callers return the same Version.     *)
(***************************************************************************)
C7_GuardedFirstLookup ==
  /\ \A k \in DOMAIN stores :
       /\ stores[k] <= 1
       /\ discoveries[k] <= 1 + Cardinality(FailedCalls(k))
  /\ \A t1, t2 \in DOMAIN tpc :
       (/\ tor_cmd[t1] = tor_cmd[t2]
        /\ tpc[t1] = "done" /\ tpc[t2] = "done"
        /\ returned[t1].exc = "none" /\ returned[t2].exc = "none")
         => returned[t1] = returned[t2]

C8_FirstValidEndpointWins ==
  /\ q_state # "none" => IsPrefix(q_tried, q_endpoints)
  /\ \A i \in 1..Len(q_causes) : q_causes[i].endpoint = q_endpoints[i]
  /\ q_state = "in_progress" => (q_result = None /\ Len(q_causes) = Len(q_tried))
  /\ q_state = "succeeded" =>
       /\ q_tried # <<>>
       /\ Len(q_causes) = Len(q_tried) - 1
       /\ q_result = Some([exc |-> "none", causes |-> <<>>,
                           records |-> RecordsOf(q_endpoints[Len(q_tried)])])
       /\ ~ENABLED QueryNext

\* the Query over [E1, E2] has recorded E1's failure and returned E2's records
C8_Witness ==
  /\ q_endpoints = <<"E1", "E2">>
  /\ q_state = "succeeded"
  /\ q_tried = <<"E1", "E2">>
  /\ q_causes = <<[endpoint |-> "E1", kind |-> "timeout"]>>
  /\ q_result # None
  /\ q_result[1].records = RecordsOf("E2")

(***************************************************************************)
(* C9: if every endpoint fails, run() ends with the Query failed and       *)
(* AllEndpointsExhausted carrying one cause per endpoint tried, in trial   *)
(* order and never empty; the Query never succeeds without a valid         *)
(* response and never stays in progress.                                   *)
(***************************************************************************)
C9_ExhaustedCarriesAllCauses ==
  /\ [](q_state = "failed" =>
          /\ q_tried = q_endpoints
          /\ q_result # None
          /\ q_result[1].exc = "AllEndpointsExhausted"
          /\ q_result[1].causes # <<>>
          /\ Len(q_result[1].causes) = Len(q_tried)
          /\ \A i \in 1..Len(q_tried) :
               /\ q_result[1].causes[i].endpoint = q_tried[i]
               /\ q_result[1].causes[i].kind \in FailureKinds)
  /\ [](q_state = "succeeded" => Len(q_causes) < Len(q_tried))
  /\ ((q_state = "in_progress") ~> (q_state \in {"succeeded", "failed"}))

\* three endpoints have failed in three ways and the Query is failed
C9_Witness ==
  /\ q_state = "failed"
  /\ Len(q_endpoints) = 3
  /\ q_result # None
  /\ Len(q_result[1].causes) = 3
  /\ {q_result[1].causes[i].kind : i \in 1..3} = FailureKinds

====
